---- MODULE Spec2Model ----
(***************************************************************************)
(* Model of packages/browser/src/integrations/globalhandlers.ts: the       *)
(* GlobalHandlers integration, which installs wrappers on the global       *)
(* onerror and onunhandledrejection slots, turns what the hooks receive    *)
(* into a TraceKit stack trace, builds an event from it and hands it to    *)
(* the current hub, and then chains to the handler that was installed      *)
(* before it.                                                              *)
(***************************************************************************)
EXTENDS Integers, Sequences, FiniteSets, TLC

(***************************************************************************)
(* JavaScript values.  Every value is a record tagged by t (the typeof     *)
(* class).  A string is a sequence of tokens; an object has a class (what  *)
(* Object.prototype.toString reports), its own properties, and the set of  *)
(* properties whose getter throws.                                         *)
(***************************************************************************)
Undefined == [t |-> "undefined"]

Null == [t |-> "null"]

Bool(b) == [t |-> "boolean", b |-> b]

Num(n) == [t |-> "number", n |-> n]

Str(s) == [t |-> "string", s |-> s]

\* An object's properties are kept in insertion order, as a sequence of
\* [k |-> name, v |-> value, enum |-> whether it is an own enumerable one].
Obj(cls, props) == [t |-> "object", cls |-> cls, props |-> props, throwing |-> {}]

ThrowingObj(cls, props, throwing) ==
    [t |-> "object", cls |-> cls, props |-> props, throwing |-> throwing]

Prop(k, v) == [k |-> k, v |-> v, enum |-> TRUE]

\* A property that is inherited or not enumerable: it can be read and is
\* found by "in", and Object.keys and JSON.stringify leave it out.
Hidden(k, v) == [k |-> k, v |-> v, enum |-> FALSE]

\* JavaScript ToBoolean.
Truthy(v) ==
    CASE v.t = "undefined" -> FALSE
      [] v.t = "null" -> FALSE
      [] v.t = "boolean" -> v.b
      [] v.t = "number" -> v.n # 0
      [] v.t = "string" -> v.s # <<>>
      [] OTHER -> TRUE

\* v.p : reading a property of undefined or null is a TypeError, and so is a
\* getter that throws.
GetThrows(v, p) ==
    \/ v.t \in {"undefined", "null"}
    \/ v.t = "object" /\ p \in v.throwing

Has(v, p) == v.t = "object" /\ \E i \in DOMAIN v.props : v.props[i].k = p

Get(v, p) ==
    IF Has(v, p)
    THEN v.props[CHOOSE i \in DOMAIN v.props : v.props[i].k = p].v
    ELSE Undefined

\* p in v : a TypeError unless v is an object.
InThrows(v) == v.t # "object"

In(p, v) == Has(v, p)

IsEnumerable(p) == p.enum

\* Object.keys(v): the own enumerable property names, in insertion order.
ObjectKeys(v) ==
    LET own == SelectSeq(v.props, IsEnumerable)
    IN [i \in DOMAIN own |-> own[i].k]

isString(wat) == wat.t = "string"

isPrimitive(wat) == wat.t # "object"

isError(wat) == wat.t = "object" /\ wat.cls \in {"Error", "Exception", "DOMException"}

isErrorEvent(wat) == wat.t = "object" /\ wat.cls = "ErrorEvent"

\* String(v), as a template literal `${v}` computes it for a primitive.
ToStringJS(v) ==
    CASE v.t = "undefined" -> <<"undefined">>
      [] v.t = "null" -> <<"null">>
      [] v.t = "boolean" -> IF v.b THEN <<"true">> ELSE <<"false">>
      [] v.t = "number" -> <<ToString(v.n)>>
      [] v.t = "string" -> v.s
      [] OTHER -> <<"[object ", v.cls, "]">>

(***************************************************************************)
(* ERROR_TYPES_RE, matched on token sequences.  The pattern is anchored at *)
(* both ends and is, in order: an optional "Uncaught " or "uncaught ",     *)
(* itself optionally followed by "exception: "; an optional group of a     *)
(* label and ": ", the label (captured as group 1) being "Error" with one  *)
(* of Eval, Internal, Range, Reference, Syntax, Type, URI or nothing       *)
(* before it; and the rest of the text (group 2), any characters but line  *)
(* terminators.  So the match fails exactly when the text holds a line     *)
(* terminator, and both optional groups are greedy.                        *)
(***************************************************************************)
UNKNOWN_FUNCTION == Str(<<"?">>)

LineTerminators == {"\n"}

UncaughtTokens == {"Uncaught ", "uncaught "}

ErrorTypePrefixes == {"Eval", "Internal", "Range", "Reference", "Syntax", "Type", "URI"}

Drop(s, n) == SubSeq(s, n + 1, Len(s))

\* The text left after the optional "Uncaught " / "Uncaught exception: ".
AfterUncaught(s) ==
    IF s # <<>> /\ s[1] \in UncaughtTokens
    THEN IF Len(s) >= 2 /\ s[2] = "exception: " THEN Drop(s, 2) ELSE Drop(s, 1)
    ELSE s

\* A faulty variant of LabelTokens: the ": " after the label is not asked for.
LabelTokens_AnyFollower(r) ==
    IF Len(r) >= 3 /\ r[1] \in ErrorTypePrefixes /\ r[2] = "Error" THEN 3
    ELSE IF Len(r) >= 2 /\ r[1] = "Error" THEN 2
    ELSE 0

\* How many tokens the optional "<label>Error: " group takes (0: not there).
LabelTokens(r) ==
    IF Len(r) >= 3 /\ r[1] \in ErrorTypePrefixes /\ r[2] = "Error" /\ r[3] = ": " THEN 3
    ELSE IF Len(r) >= 2 /\ r[1] = "Error" /\ r[2] = ": " THEN 2
    ELSE 0

\* message.match(ERROR_TYPES_RE): groups is null (matched = FALSE) or carries
\* groups[1] (undefined when the label group took nothing) and groups[2].
ERROR_TYPES_RE_match(s) ==
    LET r == AfterUncaught(s)
        n == LabelTokens(r)
    IN IF \E i \in DOMAIN s : s[i] \in LineTerminators
       THEN [matched |-> FALSE, g1 |-> Undefined, g2 |-> Undefined]
       ELSE [matched |-> TRUE,
             g1 |-> IF n = 0 THEN Undefined ELSE Str(SubSeq(r, 1, n - 1)),
             g2 |-> Str(Drop(r, n))]

(***************************************************************************)
(* External collaborators.  What each one answers is not decided by the    *)
(* integration; the answers of one hook dispatch are gathered in a record  *)
(* env that the dispatch draws:                                            *)
(*   hasIntegration  getCurrentHub().getIntegration(GlobalHandlers)        *)
(*   shouldIgnore    shouldIgnoreOnError()                                 *)
(*   mode, oddMessage   what _computeStackTrace makes of the failure       *)
(*   converted       whether eventFromStacktrace yields an exception value *)
(*   client          getCurrentHub().getClient() and its maxValueLength    *)
(*   hostRet         what the host's own onerror handler returns           *)
(***************************************************************************)
getLocationHref == Str(<<"http://localhost/">>)

shouldIgnoreOnError(env) == env.shouldIgnore

\* The messages _computeStackTrace reports in the exceptional case where the
\* message is no string but an object (an Event, with or without an error).
OddMessage(kind) ==
    IF kind = "event"
    THEN Obj("Event", <<Hidden("error", Obj("Error", <<Hidden("message", Str(<<"inner">>))>>))>>)
    ELSE Obj("Event", <<>>)

\* TraceKit's _computeStackTrace(ex): a trace without mechanism; mode is
\* "failed" when no frames could be computed.
_computeStackTrace(ex, env) ==
    [mechanism |-> "",
     mode |-> env.mode,
     name |-> IF isString(Get(ex, "name")) THEN Get(ex, "name") ELSE Undefined,
     message |-> IF env.oddMessage # "no" THEN OddMessage(env.oddMessage)
                 ELSE IF isString(Get(ex, "message")) THEN Get(ex, "message")
                 ELSE Str(<<"No error message">>),
     stack |-> <<[args |-> <<>>, column |-> Num(7), func |-> Str(<<"fn">>),
                  line |-> Num(3), url |-> Str(<<"app.js">>)]>>,
     original |-> ex]

NoMechanism == [t |-> "undefined"]

ExceptionValue(type, value, mechanism) ==
    [type |-> type, value |-> value, mechanism |-> mechanism]

\* parsers.eventFromStacktrace: the base event, whose exception values carry
\* the trace's name and message and no mechanism.
eventFromStacktrace(stacktrace, env) ==
    [level |-> Undefined,
     exception |-> [values |-> IF env.converted
                               THEN <<ExceptionValue(stacktrace.name, stacktrace.message,
                                                     NoMechanism)>>
                               ELSE <<>>],
     extra |-> Undefined]

\* utils.addExceptionTypeValue: the first exception value, made if there is
\* none, gets value, type and mechanism wherever it has none of its own.
addExceptionTypeValue(event, value, type, mechanism) ==
    LET values == event.exception.values
        first == IF values = <<>>
                 THEN ExceptionValue(Undefined, Undefined, NoMechanism)
                 ELSE values[1]
        filled == ExceptionValue(IF Truthy(first.type) THEN first.type ELSE type,
                                 IF Truthy(first.value) THEN first.value ELSE value,
                                 IF first.mechanism = NoMechanism THEN mechanism
                                 ELSE first.mechanism)
    IN [event EXCEPT !.exception.values = <<filled>> \o Drop(values, 1)]

\* utils.normalize / normalizeToSize: a sanitized plain copy.
normalize(v) == IF v.t = "object" THEN Obj("Object", v.props) ELSE v

normalizeToSize(v) == normalize(v)

\* JSON.stringify of a normalized value, one token per scalar and per key.
RECURSIVE JSONstringify(_)
RECURSIVE StringifyProps(_, _)
StringifyProps(props, i) ==
    IF i > Len(props) THEN <<>>
    ELSE (IF i > 1 THEN <<",">> ELSE <<>>)
         \o <<props[i].k, ":">> \o JSONstringify(props[i].v)
         \o StringifyProps(props, i + 1)

JSONstringify(v) ==
    CASE v.t = "string" -> <<"\"">> \o v.s \o <<"\"">>
      [] v.t = "object" ->
             <<"{">> \o StringifyProps(SelectSeq(v.props, IsEnumerable), 1) \o <<"}">>
      [] v.t = "undefined" -> <<"null">>
      [] OTHER -> ToStringJS(v)

\* utils.truncate(str, max): max = 0 means no limit.
truncate(str, max) ==
    IF max = 0 \/ Len(str) <= max THEN str ELSE SubSeq(str, 1, max) \o <<"...">>

\* utils.keysToEventMessage: the keys joined by ", ".
RECURSIVE keysToEventMessage(_)
keysToEventMessage(keys) ==
    IF keys = <<>> THEN <<>>
    ELSE IF Len(keys) = 1 THEN <<keys[1]>>
    ELSE <<keys[1], ", ">> \o keysToEventMessage(Drop(keys, 1))

\* Array.prototype.sort() on property names: ascending UTF-16 code units,
\* which for the names in use is the order of SortedNames.
SortedNames == <<"__sentry_own_request__", "a", "b", "error", "message", "name", "reason">>

Rank(k) == CHOOSE i \in DOMAIN SortedNames : SortedNames[i] = k

\* A faulty variant of Sort: the names are left in the order they came in.
Sort_Unsorted(keys) == keys

RECURSIVE Sort(_)
Sort(keys) ==
    IF keys = <<>> THEN <<>>
    ELSE LET m == CHOOSE i \in DOMAIN keys :
                    \A j \in DOMAIN keys : Rank(keys[i]) <= Rank(keys[j])
         IN <<keys[m]>> \o Sort(SubSeq(keys, 1, m - 1) \o Drop(keys, m))

(***************************************************************************)
(* Event construction.                                                     *)
(***************************************************************************)
\* The mechanism's data: mode, and message and name when they are truthy.
MechanismData(stacktrace) ==
    LET keys == {"mode"}
                \cup (IF Truthy(stacktrace.message) THEN {"message"} ELSE {})
                \cup (IF Truthy(stacktrace.name) THEN {"name"} ELSE {})
    IN [k \in keys |-> CASE k = "mode" -> Str(<<stacktrace.mode>>)
                         [] k = "message" -> stacktrace.message
                         [] OTHER -> stacktrace.name]

\* A faulty variant of Mechanism: the exception is marked as handled.
Mechanism_Handled(data, handled, type) == [data |-> data, handled |-> TRUE, type |-> type]

\* Lines 242-246 and 285-293.
Mechanism(data, handled, type) == [data |-> data, handled |-> handled, type |-> type]

_eventFromIncompleteRejection(stacktrace, handler, error) ==
    LET value == IF isPrimitive(error)
                 THEN <<"Non-Error promise rejection captured with value: ">>
                      \o ToStringJS(error)
                 ELSE <<"Non-Error promise rejection captured with keys: ">>
                      \o keysToEventMessage(Sort(ObjectKeys(error)))
        mechanism == Mechanism(MechanismData(stacktrace), FALSE, handler)
    IN [level |-> Str(<<"error">>),
        exception |-> [values |-> <<ExceptionValue(Str(<<"UnhandledRejection">>),
                                                   Str(value), mechanism)>>],
        extra |-> IF isPrimitive(error) THEN Undefined
                  ELSE Obj("Object", <<Prop("__serialized__", normalizeToSize(error))>>)]

DEFAULT_MAX_VALUE_LENGTH == 250

\* (client && client.getOptions().maxValueLength) || 250
maxValueLength(client) ==
    IF client.present /\ Truthy(client.maxValueLength)
    THEN client.maxValueLength.n
    ELSE DEFAULT_MAX_VALUE_LENGTH

\* Lines 206-213: the message, repaired when it is no string and the trace
\* does not come from a rejection.  Reading message.error throws when the
\* message is undefined or null.
NeedsMessageRepair(stacktrace) ==
    ~isString(stacktrace.message) /\ stacktrace.mechanism # "onunhandledrejection"

MessageRepairThrows(stacktrace) ==
    /\ NeedsMessageRepair(stacktrace)
    /\ \/ GetThrows(stacktrace.message, "error")
       \/ /\ Truthy(Get(stacktrace.message, "error"))
          /\ GetThrows(Get(stacktrace.message, "error"), "message")

RepairedMessage(stacktrace) ==
    LET message == stacktrace.message
    IN IF ~NeedsMessageRepair(stacktrace) THEN message
       ELSE IF Truthy(Get(message, "error")) /\ isString(Get(Get(message, "error"), "message"))
       THEN Get(Get(message, "error"), "message")
       ELSE Str(<<"No error message">>)

\* A faulty variant of TakesIncompletePath: the hook is not looked at.
TakesIncompletePath_ModeOnly(stacktrace, handler) == stacktrace.mode = "failed"

\* Line 215: whether the incomplete-rejection builder makes the event.
TakesIncompletePath(stacktrace, handler) ==
    handler = "onunhandledrejection" /\ stacktrace.mode = "failed"

\* The result carries the event, the trace as the call leaves it (the call
\* assigns stacktrace.message in place), whether the call threw, and on the
\* standard path the client it read and the locals it computed from it.
_eventFromGlobalHandler(stacktrace, handler, error, env) ==
    LET st == [stacktrace EXCEPT !.message = RepairedMessage(stacktrace)]
        event == eventFromStacktrace(st, env)
        fallbackValue ==
            IF Truthy(st.original)
            THEN Str(truncate(JSONstringify(normalize(st.original)),
                              maxValueLength(env.client)))
            ELSE Str(<<>>)
        fallbackType == IF handler = "onunhandledrejection"
                        THEN Str(<<"UnhandledRejection">>)
                        ELSE Str(<<"Error">>)
    IN IF MessageRepairThrows(stacktrace)
       THEN [threw |-> TRUE, path |-> "none", event |-> Undefined, stacktrace |-> stacktrace,
             locals |-> <<>>]
       ELSE IF TakesIncompletePath(st, handler)
       THEN [threw |-> FALSE, path |-> "incomplete",
             event |-> _eventFromIncompleteRejection(st, handler, error),
             stacktrace |-> st, locals |-> <<>>]
       ELSE [threw |-> FALSE, path |-> "standard",
             event |-> addExceptionTypeValue(event, fallbackValue, fallbackType,
                           Mechanism(MechanismData(st), FALSE, handler)),
             stacktrace |-> st,
             locals |-> [client |-> env.client,
                         maxValueLength |-> maxValueLength(env.client),
                         fallbackValue |-> fallbackValue,
                         fallbackType |-> fallbackType]]

(***************************************************************************)
(* State.                                                                  *)
(***************************************************************************)
VARIABLES
    instances,                              \* the GlobalHandlers objects constructed
    options,                                \* per instance: what its constructor was given
    _global,                                \* the global object's two handler slots
    _options,                               \* per instance: which hooks it installs
    _oldOnErrorHandler,                     \* per instance
    _oldOnUnhandledRejectionHandler,        \* per instance
    _onErrorHandlerInstalled,               \* per instance
    _onUnhandledRejectionHandlerInstalled,  \* per instance
    setupCalls,                             \* per instance: calls of setupOnce so far
    captured,                               \* per instance and hook: assignments to _old...Handler
    written,                                \* per instance and hook: assignments to the global slot
    last                                    \* the hook dispatch that has just run, or Idle

vars == <<instances, options, _global, _options, _oldOnErrorHandler,
          _oldOnUnhandledRejectionHandler, _onErrorHandlerInstalled,
          _onUnhandledRejectionHandlerInstalled, setupCalls, captured, written, last>>

\* How many times setupOnce is called on one instance.
MaxSetupCalls == 2

Hooks == {"onerror", "onunhandledrejection"}

\* What a handler slot can hold: null, a handler of the hosting application,
\* or the wrapper installed by instance self.
None == [h |-> "null", self |-> 0]

HostHandler == [h |-> "host", self |-> 0]

Wrapper(self) == [h |-> "wrapper", self |-> self]

Idle == [hook |-> "none"]

Result(log, ret, threw) == [log |-> log, ret |-> ret, threw |-> threw]

(***************************************************************************)
(* The onerror wrapper, lines 93-153.  A call yields the calls it made, in *)
(* order (log), what it returned and whether it threw instead.             *)
(***************************************************************************)
\* Lines 104-138: the trace of what the hook received.
OnErrorError(args) == IF isErrorEvent(args[5]) THEN Get(args[5], "error") ELSE args[5]

OnErrorUsesCompute(args) == Truthy(OnErrorError(args)) /\ isError(OnErrorError(args))

\* A faulty variant of SyntheticUrl: the url given is used even when it is empty.
SyntheticUrl_AsGiven(url) == url

\* Line 134: url || getLocationHref()
SyntheticUrl(url) == IF Truthy(url) THEN url ELSE getLocationHref

OnErrorStack(args, env) ==
    LET error == OnErrorError(args)
        message == IF isErrorEvent(args[1]) THEN Get(args[1], "message") ELSE args[1]
        groups == ERROR_TYPES_RE_match(message.s)
        parsed == isString(message) /\ groups.matched
    IN IF OnErrorUsesCompute(args)
       THEN [_computeStackTrace(error, env) EXCEPT !.mechanism = "onerror"]
       ELSE [mechanism |-> "onerror",
             message |-> IF parsed THEN groups.g2 ELSE message,
             mode |-> "onerror",
             name |-> IF parsed THEN groups.g1 ELSE Undefined,
             stack |-> <<[args |-> <<>>,
                          column |-> args[4],
                          func |-> UNKNOWN_FUNCTION,
                          line |-> args[3],
                          url |-> SyntheticUrl(args[2])]>>,
             original |-> Undefined]

\* error && error.__sentry_own_request__ === true
isFailedOwnDelivery(error) ==
    Truthy(error) /\ Get(error, "__sentry_own_request__") = Bool(TRUE)

\* A faulty variant of OnErrorReports: the ignore predicate is not consulted.
OnErrorReports_NoIgnore(error, env) == ~isFailedOwnDelivery(error)

\* A faulty variant of OnErrorReports: the own-request marker is not consulted.
OnErrorReports_NoOwnCheck(error, env) == ~shouldIgnoreOnError(env)

\* Line 141: whether the onerror wrapper reports the failure.
OnErrorReports(error, env) == ~shouldIgnoreOnError(env) /\ ~isFailedOwnDelivery(error)

\* Lines 180-182: whether the rejection wrapper returns without reporting.
RejectionReturnsEarly(error, env) == shouldIgnoreOnError(env) \/ isFailedOwnDelivery(error)

\* Lines 142-145 and 187-190: the event and its capture.
Report(self, stack, handler, error, env) ==
    LET built == _eventFromGlobalHandler(stack, handler, error, env)
        call == [by |-> self, op |-> "_eventFromGlobalHandler", path |-> built.path,
                 stack |-> stack, handler |-> handler, error |-> error,
                 after |-> built.stacktrace, locals |-> built.locals]
    IN IF built.threw
       THEN Result(<<call>>, Undefined, TRUE)
       ELSE Result(<<call,
                     [by |-> self, op |-> "captureEvent", event |-> built.event,
                      hint |-> [data |-> [stack |-> built.stacktrace],
                                originalException |-> error]]>>,
                   Undefined, FALSE)

\* A faulty variant of ThenChain: the handler installed before runs ahead of the report.
ThenChain_ChainFirst(prefix, report, chain) ==
    IF report.threw \/ chain.threw
    THEN Result(prefix \o chain.log \o report.log, Undefined, TRUE)
    ELSE Result(prefix \o chain.log \o report.log, chain.ret, FALSE)

\* Lines 140-152 and 187-194: the report runs first; if it throws, the wrapper
\* throws; otherwise the handler installed before is called and its result
\* returned.
ThenChain(prefix, report, chain) ==
    IF report.threw
    THEN Result(prefix \o report.log, Undefined, TRUE)
    ELSE Result(prefix \o report.log \o chain.log, chain.ret, chain.threw)

RECURSIVE callOnError(_, _, _)
RECURSIVE OnErrorChain(_, _, _)
\* Lines 97-100 and 148-152: the handler installed before, when there is one.
OnErrorChain(self, args, env) ==
    LET old == _oldOnErrorHandler[self]
        r == callOnError(old, args, env)
    IN IF old # None
       THEN Result(<<[by |-> self, op |-> "oldHandler", handler |-> old, args |-> args,
                      ret |-> r.ret]>>
                   \o r.log, r.ret, r.threw)
       ELSE Result(<<>>, Bool(FALSE), FALSE)

onerrorWrapper(self, args, env) ==
    LET hasIntegration == env.hasIntegration
        probe == <<[by |-> self, op |-> "getIntegration", result |-> hasIntegration]>>
        error == OnErrorError(args)
        stack == OnErrorStack(args, env)
        normalized == IF OnErrorUsesCompute(args)
                      THEN <<[by |-> self, op |-> "_computeStackTrace", ex |-> error]>>
                      ELSE <<>>
        ignore == shouldIgnoreOnError(env)
        asked == <<[by |-> self, op |-> "shouldIgnoreOnError", result |-> ignore]>>
        report == IF OnErrorReports(error, env)
                  THEN Report(self, stack, "onerror", error, env)
                  ELSE Result(<<>>, Undefined, FALSE)
        chain == OnErrorChain(self, args, env)
    IN IF ~hasIntegration
       THEN Result(probe \o chain.log, chain.ret, chain.threw)
       ELSE ThenChain(probe \o normalized \o asked, report, chain)

\* Calling whatever an onerror slot holds.
callOnError(h, args, env) ==
    IF h.h = "host"
    THEN Result(<<[by |-> 0, op |-> "host", args |-> args]>>, Bool(env.hostRet), FALSE)
    ELSE onerrorWrapper(h.self, args, env)

(***************************************************************************)
(* The onunhandledrejection wrapper, lines 167-195.                        *)
(***************************************************************************)
\* A faulty variant of RejectionReason: a reason that is not truthy is passed over.
RejectionReason_Truthy(e) ==
    IF Truthy(e) /\ ~InThrows(e) /\ In("reason", e) /\ ~GetThrows(e, "reason")
       /\ Truthy(Get(e, "reason"))
    THEN Get(e, "reason")
    ELSE e

\* Lines 174-177: e && 'reason' in e ? e.reason : e, inside try / catch.
RejectionReason(e) ==
    IF ~Truthy(e) THEN e
    ELSE IF InThrows(e) THEN e
    ELSE IF ~In("reason", e) THEN e
    ELSE IF GetThrows(e, "reason") THEN e
    ELSE Get(e, "reason")

RECURSIVE callOnUnhandledRejection(_, _, _)
RECURSIVE OnUnhandledRejectionChain(_, _, _)
\* Lines 192-194.
OnUnhandledRejectionChain(self, args, env) ==
    LET old == _oldOnUnhandledRejectionHandler[self]
        r == callOnUnhandledRejection(old, args, env)
    IN IF old # None
       THEN Result(<<[by |-> self, op |-> "oldHandler", handler |-> old, args |-> args,
                      ret |-> r.ret]>>
                   \o r.log, Undefined, r.threw)
       ELSE Result(<<>>, Undefined, FALSE)

onunhandledrejectionWrapper(self, args, env) ==
    LET hasIntegration == env.hasIntegration
        probe == <<[by |-> self, op |-> "getIntegration", result |-> hasIntegration]>>
        error == RejectionReason(args[1])
        ignore == shouldIgnoreOnError(env)
        asked == <<[by |-> self, op |-> "shouldIgnoreOnError", result |-> ignore]>>
        stack == [_computeStackTrace(error, env) EXCEPT !.mechanism = "onunhandledrejection"]
        normalized == <<[by |-> self, op |-> "_computeStackTrace", ex |-> error]>>
        report == Report(self, stack, "onunhandledrejection", error, env)
        chain == OnUnhandledRejectionChain(self, args, env)
    IN IF ~hasIntegration
       THEN Result(probe, Undefined, FALSE)
       ELSE IF RejectionReturnsEarly(error, env)
       THEN Result(probe \o asked, Undefined, FALSE)
       ELSE ThenChain(probe \o asked \o normalized, report, chain)

\* Calling whatever an onunhandledrejection slot holds.
callOnUnhandledRejection(h, args, env) ==
    IF h.h = "host"
    THEN Result(<<[by |-> 0, op |-> "host", args |-> args]>>, Undefined, FALSE)
    ELSE onunhandledrejectionWrapper(h.self, args, env)

(***************************************************************************)
(* The values the hooks are given.                                         *)
(***************************************************************************)
TypeErrorObject ==
    Obj("Error", <<Hidden("name", Str(<<"Type", "Error">>)),
                   Hidden("message", Str(<<"boom">>))>>)

OwnRequestError ==
    Obj("Error", <<Hidden("message", Str(<<"send failed">>)),
                   Prop("__sentry_own_request__", Bool(TRUE))>>)

OwnRequestObject == Obj("Object", <<Prop("__sentry_own_request__", Bool(TRUE))>>)

ErrorEventObject ==
    Obj("ErrorEvent", <<Hidden("message", Str(<<"Script error.">>)),
                        Hidden("error", TypeErrorObject)>>)

PlainObject == Obj("Object", <<Prop("b", Num(1)), Prop("a", Num(2))>>)

OnErrorMessages ==
    {Undefined, Null, Num(5), Str(<<"Script error.">>),
     Str(<<"Uncaught ", "Type", "Error", ": ", "x is not a function">>),
     PlainObject, ErrorEventObject}

OnErrorUrls == {Undefined, Str(<<"app.js">>)}

OnErrorErrors ==
    {Undefined, TypeErrorObject, OwnRequestError, OwnRequestObject, ErrorEventObject}

OnErrorArgs ==
    {<<msg, url, Num(1), Num(2), e>> :
        msg \in OnErrorMessages, url \in OnErrorUrls, e \in OnErrorErrors}

RejectionEvent(reason) == Obj("PromiseRejectionEvent", <<Hidden("reason", reason)>>)

ThrowingRejectionEvent ==
    ThrowingObj("Object", <<Prop("reason", Undefined)>>, {"reason"})

RejectionArgs ==
    {<<e>> : e \in {Undefined, Null, Num(42), Str(<<"oops">>), PlainObject,
                    TypeErrorObject, OwnRequestError, ThrowingRejectionEvent,
                    RejectionEvent(Undefined), RejectionEvent(Null), RejectionEvent(Num(42)),
                    RejectionEvent(PlainObject), RejectionEvent(TypeErrorObject),
                    RejectionEvent(OwnRequestError)}}

Clients ==
    {[present |-> FALSE, maxValueLength |-> Undefined],
     [present |-> TRUE, maxValueLength |-> Undefined],
     [present |-> TRUE, maxValueLength |-> Num(0)],
     [present |-> TRUE, maxValueLength |-> Num(2)]}

Modes == {"onerror", "onunhandledrejection", "failed"}

Env(hasIntegration, shouldIgnore, mode, oddMessage, converted, client, hostRet) ==
    [hasIntegration |-> hasIntegration, shouldIgnore |-> shouldIgnore, mode |-> mode,
     oddMessage |-> oddMessage, converted |-> converted, client |-> client,
     hostRet |-> hostRet]

\* The collaborators' answers to one dispatch.  Where the integration is not
\* registered or the failure is to be ignored, no trace is turned into an
\* event, and what the other collaborators would have answered is left open.
Envs ==
    {Env(hasIntegration, shouldIgnore, "failed", "no", TRUE, CHOOSE c \in Clients : ~c.present,
         hostRet) :
        hasIntegration \in BOOLEAN, shouldIgnore \in BOOLEAN, hostRet \in BOOLEAN}
    \cup
    {Env(TRUE, FALSE, mode, oddMessage, converted, client, hostRet) :
        mode \in Modes, oddMessage \in {"no", "event", "object"}, converted \in BOOLEAN,
        client \in Clients, hostRet \in BOOLEAN}

(***************************************************************************)
(* Construction and installation.                                          *)
(***************************************************************************)
Options == [onerror : BOOLEAN, onunhandledrejection : BOOLEAN]

\* What a constructor is given (line 57, options?: GlobalHandlersIntegrations):
\* nothing, which spreads as an object without keys, or a value for each hook.
GivenOptions == {<<>>} \cup Options

\* Lines 58-62: {onerror: true, onunhandledrejection: true, ...options}
Constructor(given) ==
    [hook \in Hooks |-> IF hook \in DOMAIN given THEN given[hook] ELSE TRUE]

\* Lines 45-63 for every instance of insts, on a global object whose slots
\* hold what the hosting application put there, if anything.
Construct(insts) ==
    /\ instances = insts
    /\ _global \in [onerror : {None, HostHandler}, onunhandledrejection : {None, HostHandler}]
    /\ options \in [insts -> GivenOptions]
    /\ _options = [i \in insts |-> Constructor(options[i])]
    /\ _oldOnErrorHandler = [i \in insts |-> None]
    /\ _oldOnUnhandledRejectionHandler = [i \in insts |-> None]
    /\ _onErrorHandlerInstalled = [i \in insts |-> FALSE]
    /\ _onUnhandledRejectionHandlerInstalled = [i \in insts |-> FALSE]
    /\ setupCalls = [i \in insts |-> 0]
    /\ captured = [i \in insts |-> [k \in Hooks |-> 0]]
    /\ written = [i \in insts |-> [k \in Hooks |-> 0]]
    /\ last = Idle

Init == Construct({1})

\* A faulty variant of InstallsOnError: the early return is missing.
InstallsOnError_Always(self) == TRUE

\* Lines 83-85 and 160-162: the early return of an install call.
InstallsOnError(self) == ~_onErrorHandlerInstalled[self]

InstallsOnUnhandledRejection(self) == ~_onUnhandledRejectionHandlerInstalled[self]

\* A faulty variant of Enabled: the options are not looked at.
Enabled_Always(self, hook) == TRUE

\* Lines 70 and 75: this._options.onerror, this._options.onunhandledrejection
Enabled(self, hook) == _options[self][hook]

\* Lines 67-79, with _installGlobalOnErrorHandler (82-156) and
\* _installGlobalOnUnhandledRejectionHandler (159-198) as setupOnce calls them.
setupOnce(self) ==
    LET onerror == Enabled(self, "onerror") /\ InstallsOnError(self)
        onunhandledrejection ==
            Enabled(self, "onunhandledrejection") /\ InstallsOnUnhandledRejection(self)
    IN /\ last = Idle
       /\ setupCalls[self] < MaxSetupCalls
       /\ setupCalls' = [setupCalls EXCEPT ![self] = @ + 1]
       /\ _oldOnErrorHandler' =
              IF onerror THEN [_oldOnErrorHandler EXCEPT ![self] = _global.onerror]
              ELSE _oldOnErrorHandler
       /\ _oldOnUnhandledRejectionHandler' =
              IF onunhandledrejection
              THEN [_oldOnUnhandledRejectionHandler EXCEPT
                        ![self] = _global.onunhandledrejection]
              ELSE _oldOnUnhandledRejectionHandler
       /\ _global' =
              [onerror |-> IF onerror THEN Wrapper(self) ELSE _global.onerror,
               onunhandledrejection |-> IF onunhandledrejection THEN Wrapper(self)
                                        ELSE _global.onunhandledrejection]
       /\ _onErrorHandlerInstalled' =
              IF onerror THEN [_onErrorHandlerInstalled EXCEPT ![self] = TRUE]
              ELSE _onErrorHandlerInstalled
       /\ _onUnhandledRejectionHandlerInstalled' =
              IF onunhandledrejection
              THEN [_onUnhandledRejectionHandlerInstalled EXCEPT ![self] = TRUE]
              ELSE _onUnhandledRejectionHandlerInstalled
       /\ captured' =
              [captured EXCEPT
                  ![self].onerror = IF onerror THEN @ + 1 ELSE @,
                  ![self].onunhandledrejection = IF onunhandledrejection THEN @ + 1 ELSE @]
       /\ written' =
              [written EXCEPT
                  ![self].onerror = IF onerror THEN @ + 1 ELSE @,
                  ![self].onunhandledrejection = IF onunhandledrejection THEN @ + 1 ELSE @]
       /\ UNCHANGED <<instances, options, _options, last>>

(***************************************************************************)
(* Dispatch: the host runtime calls what the slot holds, and the call runs *)
(* to completion before the host resumes.                                  *)
(***************************************************************************)
Dispatched(hook, args, r) ==
    [hook |-> hook, args |-> args, log |-> r.log, ret |-> r.ret, threw |-> r.threw]

\* The host calls window.onerror with one of the arguments in argsets, the
\* collaborators answering as one of envs.
DispatchOnError(argsets, envs) ==
    /\ last = Idle
    /\ _global.onerror # None
    /\ \E args \in argsets, env \in envs :
          last' = Dispatched("onerror", args, callOnError(_global.onerror, args, env))
    /\ UNCHANGED <<instances, options, _global, _options, _oldOnErrorHandler,
                   _oldOnUnhandledRejectionHandler, _onErrorHandlerInstalled,
                   _onUnhandledRejectionHandlerInstalled, setupCalls, captured, written>>

DispatchOnUnhandledRejection(argsets, envs) ==
    /\ last = Idle
    /\ _global.onunhandledrejection # None
    /\ \E args \in argsets, env \in envs :
          last' = Dispatched("onunhandledrejection", args,
                             callOnUnhandledRejection(_global.onunhandledrejection, args, env))
    /\ UNCHANGED <<instances, options, _global, _options, _oldOnErrorHandler,
                   _oldOnUnhandledRejectionHandler, _onErrorHandlerInstalled,
                   _onUnhandledRejectionHandlerInstalled, setupCalls, captured, written>>

FireOnError == DispatchOnError(OnErrorArgs, Envs)

FireOnUnhandledRejection == DispatchOnUnhandledRejection(RejectionArgs, Envs)

\* The host resumes after a dispatch.
Resume ==
    /\ last # Idle
    /\ last' = Idle
    /\ UNCHANGED <<instances, options, _global, _options, _oldOnErrorHandler,
                   _oldOnUnhandledRejectionHandler, _onErrorHandlerInstalled,
                   _onUnhandledRejectionHandlerInstalled, setupCalls, captured, written>>

Next ==
    \/ \E self \in instances : setupOnce(self)
    \/ FireOnError
    \/ FireOnUnhandledRejection
    \/ Resume

Spec == Init /\ [][Next]_vars

(***************************************************************************)
(* Two instances on one global object.  Each has its own options, flags    *)
(* and captured handlers; the failures dispatched are a few of each kind.  *)
(***************************************************************************)
InitTwo == Construct({1, 2})

TwoOnErrorArgs ==
    {<<Str(<<"Script error.">>), Str(<<"app.js">>), Num(1), Num(2), e>> :
        e \in {Undefined, TypeErrorObject, OwnRequestError}}

TwoRejectionArgs == {<<e>> : e \in {Num(42), RejectionEvent(TypeErrorObject), OwnRequestError}}

TwoEnvs ==
    {env \in Envs : /\ ~env.client.present
                    /\ env.oddMessage = "no"
                    /\ env.converted}

FireOnErrorTwo == DispatchOnError(TwoOnErrorArgs, TwoEnvs)

FireOnUnhandledRejectionTwo == DispatchOnUnhandledRejection(TwoRejectionArgs, TwoEnvs)

NextTwo ==
    \/ \E self \in instances : setupOnce(self)
    \/ FireOnErrorTwo
    \/ FireOnUnhandledRejectionTwo
    \/ Resume

SpecTwo == InitTwo /\ [][NextTwo]_vars

(***************************************************************************)
(* The trace the onerror wrapper makes of its arguments (lines 104-138),   *)
(* taken on its own: the arguments are drawn at the start and the one step *)
(* normalizes them.  No instance is set up and the slots stay empty.       *)
(***************************************************************************)
\* The longest text, in tokens, that follows the prefix and the label.
MaxRestLen == 2

RestTokens == {"x is not a function", "Script error.", "\n"}

Rests == UNION {[1..n -> RestTokens] : n \in 0..MaxRestLen}

UncaughtHeads ==
    {<<>>, <<"Uncaught ">>, <<"uncaught ">>, <<"Uncaught ", "exception: ">>,
     <<"uncaught ", "exception: ">>, <<"exception: ">>, <<"UNCAUGHT ">>}

LabelHeads ==
    {<<>>, <<"Error", ": ">>, <<"Error", ":">>, <<"Type", "Error">>, <<"Type", "Error", ":">>,
     <<"type", "error", ": ">>, <<"Custom", "Error", ": ">>}
    \cup {<<p, "Error", ": ">> : p \in ErrorTypePrefixes}

MessageTexts == {u \o l \o r : u \in UncaughtHeads, l \in LabelHeads, r \in Rests}

NormalizeMessages ==
    {Str(text) : text \in MessageTexts}
    \cup {Undefined, Num(5), PlainObject, ErrorEventObject}

NormalizeUrls == {Undefined, Null, Str(<<>>), Str(<<"app.js">>)}

NormalizePlaces == {<<Num(1), Num(2)>>, <<Num(0), Undefined>>}

\* Failure values that send the wrapper down the branch of line 112.
NonErrors == {Undefined, Null, PlainObject}

NormalizeArgs ==
    {<<msg, url, place[1], place[2], e>> :
        msg \in NormalizeMessages, url \in NormalizeUrls, place \in NormalizePlaces,
        e \in NonErrors}

Detached ==
    /\ instances = {}
    /\ options = <<>>
    /\ _global = [onerror |-> None, onunhandledrejection |-> None]
    /\ _options = <<>>
    /\ _oldOnErrorHandler = <<>>
    /\ _oldOnUnhandledRejectionHandler = <<>>
    /\ _onErrorHandlerInstalled = <<>>
    /\ _onUnhandledRejectionHandlerInstalled = <<>>
    /\ setupCalls = <<>>
    /\ captured = <<>>
    /\ written = <<>>

InitNormalize ==
    /\ Detached
    /\ last \in {[hook |-> "arguments", args |-> args] : args \in NormalizeArgs}

\* _computeStackTrace is not called on this branch: what the collaborators
\* would answer does not enter the trace.
NormalizeEnvs == {env \in Envs : ~env.hasIntegration /\ ~env.hostRet}

Normalize ==
    /\ last.hook = "arguments"
    /\ \E env \in NormalizeEnvs :
          last' = [hook |-> "normalized", args |-> last.args,
                   stack |-> OnErrorStack(last.args, env)]
    /\ UNCHANGED <<instances, options, _global, _options, _oldOnErrorHandler,
                   _oldOnUnhandledRejectionHandler, _onErrorHandlerInstalled,
                   _onUnhandledRejectionHandlerInstalled, setupCalls, captured, written>>

NextNormalize == Normalize

SpecNormalize == InitNormalize /\ [][NextNormalize]_vars

(***************************************************************************)
(* Reading the dispatch that has just run.                                 *)
(***************************************************************************)
Log == IF last = Idle THEN <<>> ELSE last.log

\* The calls of kind op that the wrapper of instance self made.
Calls(self, op) == {j \in DOMAIN Log : Log[j].by = self /\ Log[j].op = op}

Ran(self) == Calls(self, "getIntegration") # {}

Active(self) == \E j \in Calls(self, "getIntegration") : Log[j].result

Ignoring(self) == \E j \in Calls(self, "shouldIgnoreOnError") : Log[j].result

NotIgnoring(self) == \E j \in Calls(self, "shouldIgnoreOnError") : ~Log[j].result

InstalledFlag(self, hook) ==
    IF hook = "onerror" THEN _onErrorHandlerInstalled[self]
    ELSE _onUnhandledRejectionHandlerInstalled[self]

OldHandler(self, hook) ==
    IF hook = "onerror" THEN _oldOnErrorHandler[self]
    ELSE _oldOnUnhandledRejectionHandler[self]

\* The failure the dispatch is about: the error given to onerror (the error
\* inside, when it is an ErrorEvent), or the reason of the rejection.
FailureValue ==
    IF last.hook = "onerror" THEN OnErrorError(last.args) ELSE RejectionReason(last.args[1])

OwnMarked(v) == Get(v, "__sentry_own_request__") = Bool(TRUE)

\* The wrapper of self called the handler installed before it exactly once,
\* with the arguments of the dispatch.
ChainedOnce(self) ==
    /\ Cardinality(Calls(self, "oldHandler")) = 1
    /\ \A j \in Calls(self, "oldHandler") :
          Log[j].args = last.args /\ Log[j].handler = OldHandler(self, last.hook)

OwnSteps ==
    {"getIntegration", "_computeStackTrace", "shouldIgnoreOnError",
     "_eventFromGlobalHandler", "captureEvent"}

(***************************************************************************)
(* C1.  Each hook of an instance is installed once: its previous handler   *)
(* is captured exactly once and its wrapper written to the global slot     *)
(* exactly once.  Once a hook is installed, no step (a later setupOnce, a  *)
(* hook dispatch) changes its installed flag or its captured handler, and  *)
(* a later setupOnce of the instance leaves the global slot as it is.      *)
(***************************************************************************)
C1_State ==
    \A self \in instances, hook \in Hooks :
        /\ captured[self][hook] = IF InstalledFlag(self, hook) THEN 1 ELSE 0
        /\ written[self][hook] = IF InstalledFlag(self, hook) THEN 1 ELSE 0

C1_Step ==
    \A self \in instances, hook \in Hooks :
        InstalledFlag(self, hook) =>
            /\ InstalledFlag(self, hook)'
            /\ OldHandler(self, hook)' = OldHandler(self, hook)
            /\ captured'[self][hook] = captured[self][hook]
            /\ written'[self][hook] = written[self][hook]
            /\ setupCalls'[self] # setupCalls[self] => _global'[hook] = _global[hook]

C1_InstallOnce == []C1_State /\ [][C1_Step]_vars

\* setupOnce was called twice, both hooks are installed over a host handler,
\* and a hook has been dispatched since.
C1_Witness ==
    /\ setupCalls[1] >= 2
    /\ _onErrorHandlerInstalled[1] /\ _onUnhandledRejectionHandlerInstalled[1]
    /\ _oldOnErrorHandler[1] = HostHandler
    /\ _global.onerror = Wrapper(1)
    /\ last.hook = "onerror"

(***************************************************************************)
(* C2.  With the integration active, every call of the onerror wrapper     *)
(* calls the handler installed before it exactly once with the same five   *)
(* arguments and returns what it returned; with none installed before, the *)
(* wrapper returns false.                                                  *)
(***************************************************************************)
C2_OnErrorChains ==
    \A self \in instances :
        (last.hook = "onerror" /\ _global.onerror = Wrapper(self) /\ Active(self)) =>
            /\ ~last.threw
            /\ IF _oldOnErrorHandler[self] # None
               THEN /\ ChainedOnce(self)
                    /\ \A j \in Calls(self, "oldHandler") : last.ret = Log[j].ret
               ELSE Calls(self, "oldHandler") = {} /\ last.ret = Bool(FALSE)

(***************************************************************************)
(* C3.  With the integration active, every call of the                     *)
(* onunhandledrejection wrapper calls the handler installed before it      *)
(* exactly once with the same argument, also when the rejection is ignored *)
(* or is an own-request failure.                                           *)
(***************************************************************************)
C3_RejectionChains ==
    \A self \in instances :
        (/\ last.hook = "onunhandledrejection"
         /\ Active(self)
         /\ _oldOnUnhandledRejectionHandler[self] # None) => ChainedOnce(self)

(***************************************************************************)
(* C4.  A wrapper whose integration is not registered with the current hub *)
(* normalizes nothing, does not ask the ignore predicate and captures      *)
(* nothing; it calls the handler installed before it with the original     *)
(* arguments when there is one, and otherwise returns false (onerror) or   *)
(* nothing (onunhandledrejection).                                         *)
(***************************************************************************)
C4_InertWhenInactive ==
    \A self \in instances :
        (last.hook \in Hooks /\ Ran(self) /\ ~Active(self)) =>
            /\ \A op \in OwnSteps \ {"getIntegration"} : Calls(self, op) = {}
            /\ IF OldHandler(self, last.hook) # None
               THEN ChainedOnce(self)
               ELSE /\ Calls(self, "oldHandler") = {}
                    /\ _global[last.hook] = Wrapper(self) =>
                          last.ret = IF last.hook = "onerror" THEN Bool(FALSE) ELSE Undefined

(***************************************************************************)
(* C5.  A dispatch whose failure value carries __sentry_own_request__      *)
(* exactly true makes no captureEvent call.                                *)
(***************************************************************************)
C5_OwnRequestNeverCaptured ==
    (last.hook \in Hooks /\ OwnMarked(FailureValue)) =>
        \A j \in DOMAIN Log : Log[j].op # "captureEvent"

\* A rejection event whose reason is an own-request failure reached an active
\* wrapper that was not told to ignore it.
C5_Witness ==
    /\ last.hook = "onunhandledrejection"
    /\ FailureValue # last.args[1]
    /\ OwnMarked(FailureValue)
    /\ \E self \in instances : Active(self) /\ NotIgnoring(self)

(***************************************************************************)
(* C6.  Within a dispatch, everything a wrapper does itself (asking the    *)
(* hub, computing the trace, building and capturing the event) comes       *)
(* before its call of the handler installed before it.                     *)
(***************************************************************************)
C6_ReportBeforeChain ==
    \A j, k \in DOMAIN Log :
        (Log[j].op = "oldHandler" /\ Log[k].by = Log[j].by /\ Log[k].op \in OwnSteps) => k < j

\* A wrapper captured an event and called the handler installed before it.
C6_Witness ==
    \E self \in instances :
        Calls(self, "captureEvent") # {} /\ Calls(self, "oldHandler") # {}

(***************************************************************************)
(* C7.  When shouldIgnoreOnError answers true, the wrapper builds no event *)
(* and captures none.                                                      *)
(***************************************************************************)
C7_IgnoredNotBuilt ==
    \A self \in instances :
        Ignoring(self) =>
            Calls(self, "_eventFromGlobalHandler") = {} /\ Calls(self, "captureEvent") = {}

\* An active onerror wrapper was told to ignore an error that is no
\* own-request failure.
C7_Witness ==
    /\ last.hook = "onerror"
    /\ isError(FailureValue) /\ ~OwnMarked(FailureValue)
    /\ \E self \in instances : Active(self) /\ Ignoring(self)

(***************************************************************************)
(* C8.  No dispatch throws back into the host; an onerror dispatch without *)
(* an error object and with a message that is no string, reaching an       *)
(* active wrapper that is not told to ignore it, still captures an event.  *)
(***************************************************************************)
C8_NeverThrows ==
    /\ last.hook \in Hooks => ~last.threw
    /\ \A self \in instances :
          (/\ last.hook = "onerror"
           /\ Active(self) /\ NotIgnoring(self)
           /\ ~Truthy(last.args[5]) /\ ~isString(last.args[1])) =>
              Calls(self, "captureEvent") # {}

(***************************************************************************)
(* C9.  With one instance installed and active, a dispatch that is neither *)
(* ignored nor an own-request failure makes exactly one captureEvent call, *)
(* whose hint carries the trace the event was built from as data.stack and *)
(* the failure value as originalException.                                 *)
(***************************************************************************)
C9_CapturedExactlyOnce ==
    \A self \in instances :
        (/\ last.hook \in Hooks
         /\ instances = {self}
         /\ _global[last.hook] = Wrapper(self)
         /\ Active(self) /\ NotIgnoring(self)
         /\ ~OwnMarked(FailureValue)) =>
            /\ Cardinality(Calls(self, "captureEvent")) = 1
            /\ Cardinality(Calls(self, "_eventFromGlobalHandler")) = 1
            /\ \A j \in Calls(self, "captureEvent") :
                  /\ Log[j].hint.originalException = FailureValue
                  /\ \A b \in Calls(self, "_eventFromGlobalHandler") :
                        Log[j].hint.data.stack = Log[b].after

(***************************************************************************)
(* C10.  Every event _eventFromGlobalHandler returns, on the standard path *)
(* or the incomplete-rejection path, has exactly one exception value with  *)
(* a mechanism, the first one, and that mechanism has handled = false and  *)
(* type equal to the name of the hook.                                     *)
(***************************************************************************)
C10_OneUnhandledMechanism ==
    \A j \in DOMAIN Log :
        Log[j].op = "captureEvent" =>
            LET values == Log[j].event.exception.values
            IN /\ values # <<>>
               /\ {n \in DOMAIN values : values[n].mechanism # NoMechanism} = {1}
               /\ values[1].mechanism.handled = FALSE
               /\ values[1].mechanism.type = last.hook

\* An event of the standard path whose exception value took the fallback type.
C10_Witness ==
    \E j \in DOMAIN Log :
        /\ Log[j].op = "captureEvent"
        /\ Log[j - 1].path = "standard"
        /\ Log[j].event.exception.values[1].type = Str(<<"Error">>)

(***************************************************************************)
(* C11.  The event of the incomplete-rejection builder has level error and *)
(* a single exception value of type "UnhandledRejection".  For a primitive *)
(* reason the value is "Non-Error promise rejection captured with value: " *)
(* followed by the reason as a string, and the event has no extra; for any *)
(* other reason the value is "Non-Error promise rejection captured with    *)
(* keys: " followed by the reason's own enumerable keys, each once, in     *)
(* ascending order and separated by ", ", and extra.__serialized__ is      *)
(* there.                                                                  *)
(***************************************************************************)
IncompleteBuilds ==
    {j \in DOMAIN Log : Log[j].op = "_eventFromGlobalHandler" /\ Log[j].path = "incomplete"}

\* The names listed in a text of names separated by ", ".
ListedKeys(text) == [i \in 1..((Len(text) + 1) \div 2) |-> text[2 * i - 1]]

IsKeyList(text, keys) ==
    LET listed == ListedKeys(text)
    IN /\ text = <<>> \/ Len(text) % 2 = 1
       /\ \A i \in DOMAIN text : i % 2 = 0 => text[i] = ", "
       /\ \A i, j \in DOMAIN listed : i < j => Rank(listed[i]) < Rank(listed[j])
       /\ Len(listed) = Len(keys)
       /\ {listed[i] : i \in DOMAIN listed} = {keys[i] : i \in DOMAIN keys}

IncompleteEventOf(event, error) ==
    /\ event.level = Str(<<"error">>)
    /\ Len(event.exception.values) = 1
    /\ event.exception.values[1].type = Str(<<"UnhandledRejection">>)
    /\ LET value == event.exception.values[1].value.s
       IN IF error.t # "object"
          THEN /\ value = <<"Non-Error promise rejection captured with value: ">>
                           \o ToStringJS(error)
               /\ event.extra = Undefined
          ELSE /\ value # <<>>
               /\ value[1] = "Non-Error promise rejection captured with keys: "
               /\ IsKeyList(Drop(value, 1), ObjectKeys(error))
               /\ Has(event.extra, "__serialized__")

C11_IncompleteRejectionEvent ==
    \A j \in IncompleteBuilds :
        /\ j + 1 \in DOMAIN Log
        /\ Log[j + 1].op = "captureEvent"
        /\ IncompleteEventOf(Log[j + 1].event, Log[j].error)

\* A rejection with the reason {b: 1, a: 2} was built into "... keys: a, b",
\* and one with the reason 42 is an input of the same dispatch set.
C11_Witness ==
    \E j \in IncompleteBuilds :
        /\ Log[j].error = PlainObject
        /\ Log[j + 1].event.exception.values[1].value.s =
               <<"Non-Error promise rejection captured with keys: ", "a", ", ", "b">>
        /\ Has(Log[j + 1].event.extra, "__serialized__")

(***************************************************************************)
(* C12.  Label parsing on the branch of line 112, for a message that is a  *)
(* string.  When the text has no line terminator the pattern matches: the  *)
(* name is undefined, or "Error", or one of the seven labels EvalError,    *)
(* InternalError, RangeError, ReferenceError, SyntaxError, TypeError and   *)
(* URIError; the text is the longest "Uncaught " / "Uncaught exception: "  *)
(* prefix there is, then the name and ": " when there is a name, then the  *)
(* message; and the name is undefined only where no such label and ": "    *)
(* follow the prefix.  Otherwise the name is undefined and the message is  *)
(* the text as given.                                                      *)
(***************************************************************************)
Normalized == last.hook = "normalized"

\* The text handed to the pattern: the message, or the message inside an
\* ErrorEvent.
GivenMessage ==
    IF isErrorEvent(last.args[1]) THEN Get(last.args[1], "message") ELSE last.args[1]

SevenLabels == {<<p, "Error">> : p \in ErrorTypePrefixes}

HasLineTerminator(text) == \E i \in DOMAIN text : text[i] \in LineTerminators

StartsWith(text, head) == Len(text) >= Len(head) /\ SubSeq(text, 1, Len(head)) = head

\* The ways a text splits into prefix, label and message.
Splits(text, labels) ==
    {<<u, l>> \in {<<>>, <<"Uncaught ">>, <<"uncaught ">>,
                   <<"Uncaught ", "exception: ">>, <<"uncaught ", "exception: ">>}
               \X ({<<>>} \cup labels) :
        /\ StartsWith(text, u \o (IF l = <<>> THEN <<>> ELSE l \o <<": ">>))
        /\ u = <<>> => ~(text # <<>> /\ text[1] \in {"Uncaught ", "uncaught "})
        /\ Len(u) = 1 => ~StartsWith(Drop(text, 1), <<"exception: ">>)
        /\ l = <<>> => \A k \in labels : ~StartsWith(Drop(text, Len(u)), k \o <<": ">>)}

ParsedAs(text, labels) ==
    IF HasLineTerminator(text)
    THEN last.stack.name = Undefined /\ last.stack.message = Str(text)
    ELSE \E split \in Splits(text, labels) :
            /\ last.stack.name = (IF split[2] = <<>> THEN Undefined ELSE Str(split[2]))
            /\ last.stack.message =
                   Str(Drop(text, Len(split[1])
                                  + (IF split[2] = <<>> THEN 0 ELSE Len(split[2]) + 1)))

ParseExamples ==
    /\ GivenMessage = Str(<<"Uncaught ", "Type", "Error", ": ", "x is not a function">>)
          => /\ last.stack.name = Str(<<"Type", "Error">>)
             /\ last.stack.message = Str(<<"x is not a function">>)
    /\ GivenMessage = Str(<<"Script error.">>)
          => /\ last.stack.name = Undefined
             /\ last.stack.message = Str(<<"Script error.">>)

C12_LabelParsing ==
    Normalized /\ isString(GivenMessage)
        => /\ ParsedAs(GivenMessage.s, SevenLabels \cup {<<"Error">>})
           /\ ParseExamples

\* C12 as first stated: on a match the name is undefined or one of the seven
\* labels followed by ": ", and the message is the text after prefix and label.
C12_SevenLabelsOnly ==
    Normalized /\ isString(GivenMessage)
        => /\ ParsedAs(GivenMessage.s, SevenLabels)
           /\ ParseExamples

\* "Uncaught TypeError: x is not a function" was parsed into its label and
\* its message.
C12_Witness ==
    /\ Normalized
    /\ GivenMessage = Str(<<"Uncaught ", "Type", "Error", ": ", "x is not a function">>)
    /\ last.stack.name = Str(<<"Type", "Error">>)
    /\ last.stack.message = Str(<<"x is not a function">>)

(***************************************************************************)
(* C13.  The construction path of _eventFromGlobalHandler is decided by    *)
(* the hook and the trace's mode together: a call that gets as far as      *)
(* building an event uses the incomplete-rejection builder exactly when    *)
(* the hook is onunhandledrejection and the mode is "failed", and the      *)
(* standard conversion otherwise.  Two traces of the same hook and mode    *)
(* thus take the same path; two of the same mode alone need not.           *)
(***************************************************************************)
Builds == {j \in DOMAIN Log : Log[j].op = "_eventFromGlobalHandler" /\ Log[j].path # "none"}

C13_PathByHookAndMode ==
    \A j \in Builds :
        Log[j].path = (IF Log[j].handler = "onunhandledrejection"
                           /\ Log[j].after.mode = "failed"
                       THEN "incomplete" ELSE "standard")

\* C13 as first stated: the mode alone decides, and a trace of mode "failed"
\* is always built by the incomplete-rejection builder.
C13_PathByModeAlone ==
    \A j \in Builds :
        Log[j].path = (IF Log[j].after.mode = "failed" THEN "incomplete" ELSE "standard")

\* An onerror trace of mode "failed" went through the standard conversion.
C13_Witness ==
    \E j \in Builds :
        /\ Log[j].handler = "onerror"
        /\ Log[j].after.mode = "failed"
        /\ Log[j].path = "standard"

(***************************************************************************)
(* C14.  Message repair: every call of _eventFromGlobalHandler on a trace  *)
(* whose mechanism is not "onunhandledrejection" returns and leaves        *)
(* trace.message a string: the message it had if that was a string, else   *)
(* message.error.message if that is a string, else "No error message".  On *)
(* a trace whose mechanism is "onunhandledrejection" the message is left   *)
(* as it was.                                                              *)
(***************************************************************************)
EventCalls == {j \in DOMAIN Log : Log[j].op = "_eventFromGlobalHandler"}

ExpectedMessage(message) ==
    IF message.t = "string" THEN message
    ELSE IF Get(Get(message, "error"), "message").t = "string"
    THEN Get(Get(message, "error"), "message")
    ELSE Str(<<"No error message">>)

MessageRepaired(j) ==
    IF Log[j].stack.mechanism = "onunhandledrejection"
    THEN Log[j].after.message = Log[j].stack.message
    ELSE /\ Log[j].path # "none"
         /\ Log[j].after.message.t = "string"
         /\ Log[j].after.message = ExpectedMessage(Log[j].stack.message)

C14_MessageRepair == \A j \in EventCalls : MessageRepaired(j)

(***************************************************************************)
(* C15.  The reason the rejection wrapper works with is e.reason when the  *)
(* argument e is truthy, is an object, has a "reason" property and reading *)
(* it does not throw, whatever its value (undefined and null included).    *)
(* When e is falsy, has no such property, or probing or reading throws (e  *)
(* is a primitive, or the getter throws), the reason is e itself, and the  *)
(* wrapper does not throw.                                                 *)
(***************************************************************************)
ReasonProps(e) == {i \in DOMAIN e.props : e.props[i].k = "reason"}

ExpectedReason(e) ==
    IF e.t = "object" /\ ReasonProps(e) # {} /\ "reason" \notin e.throwing
    THEN e.props[CHOOSE i \in ReasonProps(e) : TRUE].v
    ELSE e

\* The values the rejection wrapper of any instance handed on as the reason.
ReasonsUsed ==
    {Log[j].ex : j \in {k \in DOMAIN Log : Log[k].by # 0 /\ Log[k].op = "_computeStackTrace"}}
    \cup {Log[j].hint.originalException :
             j \in {k \in DOMAIN Log : Log[k].op = "captureEvent"}}

C15_ReasonExtraction ==
    last.hook = "onunhandledrejection"
        => /\ ~last.threw
           /\ ReasonsUsed \subseteq {ExpectedReason(last.args[1])}

\* An event with the reason null was reported with null as the reason, not
\* with the event.
C15_Witness ==
    /\ last.hook = "onunhandledrejection"
    /\ last.args[1] = RejectionEvent(Null)
    /\ ReasonsUsed = {Null}

(***************************************************************************)
(* C16.  The trace the onerror wrapper builds when it has no error object  *)
(* has mechanism "onerror", mode "onerror" and a stack of exactly one      *)
(* frame: func "?", no args, the line and column given, and as url the url *)
(* given or, when none is given (undefined, null or the empty string), the *)
(* location of the current document.                                       *)
(***************************************************************************)
UrlGiven == last.args[2].t = "string" /\ last.args[2].s # <<>>

C16_SyntheticTrace ==
    Normalized
        => /\ last.stack.mechanism = "onerror"
           /\ last.stack.mode = "onerror"
           /\ Len(last.stack.stack) = 1
           /\ last.stack.stack[1].func = Str(<<"?">>)
           /\ last.stack.stack[1].args = <<>>
           /\ last.stack.stack[1].line = last.args[3]
           /\ last.stack.stack[1].column = last.args[4]
           /\ last.stack.stack[1].url =
                  (IF UrlGiven THEN last.args[2] ELSE Str(<<"http://localhost/">>))

\* A trace was built for a call without url, and its one frame points at the
\* document.
C16_Witness ==
    /\ Normalized
    /\ last.args[2] = Undefined
    /\ last.args[3] = Num(1)
    /\ Len(last.stack.stack) = 1
    /\ last.stack.stack[1].url = Str(<<"http://localhost/">>)
    /\ last.stack.stack[1].line = Num(1)

(***************************************************************************)
(* C17.  On the standard path the limit the fallback value is truncated to *)
(* is the maxValueLength the client is configured with, whatever integer   *)
(* that is (0 included), and 250 only when there is no client or it does   *)
(* not specify one; and the fallback value is empty when the trace has no  *)
(* original.                                                               *)
(***************************************************************************)
StandardBuilds ==
    {j \in DOMAIN Log : Log[j].op = "_eventFromGlobalHandler" /\ Log[j].path = "standard"}

Configured(client) == client.present /\ client.maxValueLength.t = "number"

ExpectedLimit(client) == IF Configured(client) THEN client.maxValueLength.n ELSE 250

C17_TruncationLimit ==
    \A j \in StandardBuilds :
        /\ Log[j].locals.maxValueLength = ExpectedLimit(Log[j].locals.client)
        /\ Log[j].after.original = Undefined => Log[j].locals.fallbackValue = Str(<<>>)

(***************************************************************************)
(* C18.  No double reporting across instances: with two instances both     *)
(* installed on a hook, the later one holding the earlier one's wrapper as *)
(* its previous handler, a failure dispatched on that hook while the       *)
(* integration is active and nothing suppresses it is handed to            *)
(* captureEvent exactly once in total.                                     *)
(***************************************************************************)
Stacked(hook) ==
    \E i, j \in instances :
        /\ i # j
        /\ InstalledFlag(i, hook) /\ InstalledFlag(j, hook)
        /\ _global[hook] = Wrapper(j)
        /\ OldHandler(j, hook) = Wrapper(i)

Captures == {j \in DOMAIN Log : Log[j].op = "captureEvent"}

Unsuppressed ==
    /\ \A i \in instances : Ran(i) => Active(i) /\ NotIgnoring(i)
    /\ ~OwnMarked(FailureValue)

C18_NoDoubleReporting ==
    last.hook \in Hooks /\ Stacked(last.hook) /\ Unsuppressed /\ ~last.threw
        => Cardinality(Captures) = 1

(***************************************************************************)
(* C19.  The two hooks are independent.  An instance's options are what    *)
(* its constructor was given, both hooks being enabled when it was given   *)
(* nothing.  A hook's global slot, installed flags and captured previous   *)
(* handlers change only in a setupOnce of an instance that has this hook   *)
(* enabled and not yet installed, which captures the slot's handler, puts  *)
(* its wrapper in the slot and sets its flag; a setupOnce of an instance   *)
(* with the hook disabled, an install of the other hook and a dispatch of  *)
(* either hook leave all three as they were.                               *)
(***************************************************************************)
OptionsAsGiven ==
    \A i \in instances : \A hook \in Hooks :
        _options[i][hook] = (IF options[i] = <<>> THEN TRUE ELSE options[i][hook])

\* setupOnce of instance i has just run.
SetUp(i) == setupCalls'[i] = setupCalls[i] + 1

HookInstalledBy(i, hook) ==
    /\ (OldHandler(i, hook))' = _global[hook]
    /\ _global'[hook] = Wrapper(i)
    /\ (InstalledFlag(i, hook))'
    /\ \A k \in instances \ {i} :
          /\ (OldHandler(k, hook))' = OldHandler(k, hook)
          /\ (InstalledFlag(k, hook))' = InstalledFlag(k, hook)

HookUntouched(hook) ==
    /\ _global'[hook] = _global[hook]
    /\ \A k \in instances :
          /\ (OldHandler(k, hook))' = OldHandler(k, hook)
          /\ (InstalledFlag(k, hook))' = InstalledFlag(k, hook)

C19_Step ==
    \A hook \in Hooks :
        IF \E i \in instances : SetUp(i) /\ _options[i][hook] /\ ~InstalledFlag(i, hook)
        THEN \E i \in instances : SetUp(i) /\ HookInstalledBy(i, hook)
        ELSE HookUntouched(hook)

C19_HooksIndependent == []OptionsAsGiven /\ [][C19_Step]_vars

\* An instance constructed with onerror alone enabled is installed on
\* onerror, the host's onunhandledrejection handler still sits in its slot,
\* and a rejection has been dispatched to it.
C19_Witness ==
    \E i \in instances :
        /\ options[i] # <<>>
        /\ _options[i].onerror /\ ~_options[i].onunhandledrejection
        /\ _onErrorHandlerInstalled[i] /\ _global.onerror = Wrapper(i)
        /\ ~_onUnhandledRejectionHandlerInstalled[i]
        /\ _oldOnUnhandledRejectionHandler[i] = None
        /\ _global.onunhandledrejection = HostHandler
        /\ last.hook = "onunhandledrejection"

====
